---- MODULE Spec2Model ----
(***************************************************************************)
(* alidock: lifecycle of one named development container, with the         *)
(* debounced update checks (client version, image digest) that precede it. *)
(* Model of src/alidock/__init__.py.                                       *)
(*                                                                         *)
(* Five specifications share the variables:                                *)
(*   Spec     the command-line tool: sequential invocations of             *)
(*            entrypoint(), each a sequence of steps (pc);                 *)
(*   SpecLib  the update checker of the AliDock class used as a library:   *)
(*            hasUpdates called directly with any arguments;               *)
(*   SpecImg  the same for hasImageUpdates, with any configuration,        *)
(*            runtime and registry;                                        *)
(*   SpecConf the construction of an AliDock object from any configuration *)
(*            file and override, and the container name its calls give;    *)
(*   SpecSsh  one call of waitSshUp, one loop iteration per step.          *)
(***************************************************************************)
EXTENDS Integers, FiniteSets, Sequences, TLC

(***************************************************************************)
(* Bounds and program constants                                            *)
(***************************************************************************)
\* clock advances in one behaviour of the tool
MaxTicks == 1

\* clock advances in one behaviour of the library
MaxLibTicks == 2

\* conf["updatePeriod"] default, seconds
DefaultPeriod == 43200

\* range(0, 40) of waitSshUp
SshTries == 40

\* a clock advance: one second, one default period, or somewhat more
TimeSteps == {1, DefaultPeriod, 50000}

\* the clock at the start: the epoch lies more than a period back
StartTime == DefaultPeriod + DefaultPeriod

\* update periods a caller or a configuration can give
Periods == {0, 1, DefaultPeriod}

StateFiles == {".alidock_pip_check", ".alidock_docker_check"}

Digests == {"sha256:AAA", "sha256:BBB"}

(***************************************************************************)
(* The state file: absent, unparseable, or the text of an integer          *)
(***************************************************************************)
Missing == [kind |-> "missing", val |-> 0]

Garbage == [kind |-> "garbage", val |-> 0]

\* fil.write(str(now)): the decimal text of now
Ts(n) == [kind |-> "int", val |-> n]

\* open(tsFn) / int(fil.read()) with the except clause: failures give 0
ReadTs(content) == IF content.kind = "int" THEN content.val ELSE 0

(***************************************************************************)
(* hasUpdates                                                              *)
(***************************************************************************)
StaleGe(nowv, lastUpdate, updatePeriod) == nowv - lastUpdate >= updatePeriod

\* the debounce test
Stale(nowv, lastUpdate, updatePeriod) == nowv - lastUpdate > updatePeriod

\* the rewrite decision
Persist(nagOnUpdate) == ~nagOnUpdate

\* open(tsFn, "w") succeeds only in an existing directory
Writable(dirState) == dirState = "present"

NotInvoked(content) ==
    [invoked |-> 0, ret |-> FALSE, raised |-> "none", file |-> content]

\* outcome is what updateFunc() does: "update" (returns True), "noupdate"
\* (returns False), "AliDockError" (caught and re-raised after the rewrite)
\* or "RequestException" (any other exception: it leaves at once).
\* The result: how often updateFunc ran, the return value, the exception
\* that reaches the caller, and the state file afterwards.
hasUpdates(content, dirState, nowv, updatePeriod, nagOnUpdate, outcome) ==
    LET lastUpdate == ReadTs(content)
    IN  IF Stale(nowv, lastUpdate, updatePeriod)
        THEN IF outcome = "RequestException"
             THEN [invoked |-> 1, ret |-> FALSE, raised |-> "RequestException",
                   file |-> content]
             ELSE IF Persist(nagOnUpdate) /\ ~Writable(dirState)
             THEN [invoked |-> 1, ret |-> FALSE, raised |-> "IOError",
                   file |-> content]
             ELSE [invoked |-> 1,
                   ret     |-> outcome = "update",
                   raised  |-> IF outcome = "AliDockError"
                               THEN "AliDockError" ELSE "none",
                   file    |-> IF Persist(nagOnUpdate) THEN Ts(nowv) ELSE content]
        ELSE NotInvoked(content)

\* updateFunc of hasClientUpdates on the package index's answer
ClientUpdateFunc(pypi) ==
    CASE pypi = "newer"            -> "update"
      [] pypi = "notnewer"         -> "noupdate"
      [] pypi = "RequestException" -> "AliDockError"
      [] pypi = "ValueError"       -> "AliDockError"

PypiAnswers == {"newer", "notnewer", "RequestException", "ValueError"}

hasClientUpdates(lastTag, content, dirState, nowv, updatePeriod, pypi) ==
    IF lastTag
    THEN NotInvoked(content)
    ELSE hasUpdates(content, dirState, nowv, updatePeriod, TRUE,
                    ClientUpdateFunc(pypi))

DigestsEqual(availHash, localHash) == availHash = localHash

\* return availHash != localHash
DigestsDiffer(availHash, localHash) == availHash # localHash

\* updateFunc of hasImageUpdates: the outcome and the runtime calls it makes.
\* daemon: how the runtime answers ("ok", or the error its calls raise);
\* local: "none" (NotFound), "nodigest" (RepoDigests empty) or a digest;
\* registry: "err" (APIError from get_registry_data) or a digest.
ImageUpdateFunc(daemon, local, registry) ==
    CASE daemon = "RequestException" ->
            [outcome |-> "RequestException", api |-> {"images.get"}]
      [] daemon = "APIError" ->
            [outcome |-> "AliDockError", api |-> {"images.get"}]
      [] daemon = "ok" /\ local = "none" ->
            [outcome |-> "noupdate", api |-> {"images.get"}]
      [] daemon = "ok" /\ local = "nodigest" ->
            [outcome |-> "AliDockError", api |-> {"images.get"}]
      [] daemon = "ok" /\ local \in Digests /\ registry = "err" ->
            [outcome |-> "AliDockError",
             api |-> {"images.get", "get_registry_data"}]
      [] daemon = "ok" /\ local \in Digests /\ registry \in Digests ->
            [outcome |-> IF DigestsDiffer(registry, local)
                         THEN "update" ELSE "noupdate",
             api |-> {"images.get", "get_registry_data"}]

SkipNever(dontUpdateImage) == FALSE

\* if self.conf["dontUpdateImage"]: return False
SkipImageCheck(dontUpdateImage) == dontUpdateImage

\* The result of hasUpdates plus the runtime calls made.
hasImageUpdates(dontUpdateImage, content, dirState, nowv, updatePeriod, daemon, local, registry) ==
    IF SkipImageCheck(dontUpdateImage)
    THEN [res |-> NotInvoked(content), api |-> {}]
    ELSE LET f == ImageUpdateFunc(daemon, local, registry)
             r == hasUpdates(content, dirState, nowv, updatePeriod, FALSE,
                             f.outcome)
         IN  [res |-> r, api |-> IF r.invoked = 1 THEN f.api ELSE {}]

(***************************************************************************)
(* Configuration: defaults < file < override                               *)
(***************************************************************************)
Keys == {"dockName", "imageName", "dirOutside", "updatePeriod",
         "dontUpdateImage"}

\* None
Null == [t |-> "null"]

V(x) == [t |-> "val", v |-> x]

\* self.conf of __init__; names are sequences of tokens, "-" a token
Defaults ==
    [dockName        |-> V(<<"alidock">>),
     imageName       |-> V(<<"alisw/alidock:latest">>),
     dirOutside      |-> V(<<"~/alidock">>),
     updatePeriod    |-> V(DefaultPeriod),
     dontUpdateImage |-> V(FALSE)]

\* the file cannot be read or is no mapping: the except clause
NoFile == [t |-> "nofile"]

\* a mapping read from ~/.alidock-config.yaml
FileMap(m) == [t |-> "map", m |-> m]

\* self.conf[k] = confOverride.get(k, self.conf[k])
parseConfig(conf, file) ==
    IF file.t = "map"
    THEN [k \in Keys |-> IF k \in DOMAIN file.m THEN file.m[k] ELSE conf[k]]
    ELSE conf

\* if not override.get(k) is None: self.conf[k] = override[k]
overrideConfig(conf, override) ==
    IF override = Null \/ DOMAIN override = {}
    THEN conf
    ELSE [k \in Keys |-> IF k \in DOMAIN override /\ override[k] # Null
                         THEN override[k] ELSE conf[k]]

\* "{dockName}-{userId}".format(...); None prints as "None"
FormatName(dockName, userId) ==
    (IF dockName = Null THEN <<"None">> ELSE dockName.v)
        \o <<"-", ToString(userId)>>

\* AliDock.__init__
AliDockInit(file, override, userId) ==
    LET c == overrideConfig(parseConfig(Defaults, file), override)
    IN  [c EXCEPT !["dockName"] = V(FormatName(c["dockName"], userId))]

\* the argparse defaults of entrypoint: every configuration switch is None
\* when not given, except --no-update-image, a store_true flag
ArgsDict(name, period, noUpdateImage) ==
    [dockName        |-> name,
     imageName       |-> Null,
     dirOutside      |-> Null,
     updatePeriod    |-> period,
     dontUpdateImage |-> V(noUpdateImage)]

(***************************************************************************)
(* Container runtime calls                                                 *)
(***************************************************************************)
\* entrypoint: the exit status for an exception that leaves processActions;
\* any exception without an except clause ends in a traceback, status 1
ExitOf(raised) ==
    CASE raised = "AliDockError"     -> 10
      [] raised = "APIError"         -> 11
      [] raised = "RequestException" -> 12
      [] OTHER                       -> 1

isRunningNever(container, daemon) ==
    IF daemon # "ok" THEN daemon ELSE "false"

isRunningQuiet(container, daemon) ==
    IF daemon # "ok" \/ container = "ABSENT" THEN "false" ELSE "true"

\* isRunning: "true" (containers.get finds the name), "false" (NotFound),
\* or the runtime's error
isRunning(container, daemon) ==
    IF daemon # "ok" THEN daemon
    ELSE IF container = "ABSENT" THEN "false" ELSE "true"

stopNoCatch(container, daemon) ==
    IF daemon # "ok" THEN [container |-> container, raised |-> daemon]
    ELSE IF container = "RUNNING"
         THEN [container |-> "ABSENT", raised |-> "none"]
         ELSE [container |-> container, raised |-> "APIError"]

stopKeeps(container, daemon) ==
    IF daemon # "ok" THEN [container |-> container, raised |-> daemon]
    ELSE [container |-> IF container = "ABSENT" THEN "ABSENT" ELSE "STOPPED",
          raised |-> "none"]

\* stop: containers.get(name).remove(force=True), NotFound passes
stop(container, daemon) ==
    IF daemon # "ok" THEN [container |-> container, raised |-> daemon]
    ELSE [container |-> "ABSENT", raised |-> "none"]

\* pull: the image afterwards and the exception raised
pull(local, daemon, registry) ==
    CASE daemon = "RequestException" -> [local |-> local, raised |-> "RequestException"]
      [] daemon = "APIError"  -> [local |-> local, raised |-> "AliDockError"]
      [] daemon = "ok" /\ registry = "err" ->
                                 [local |-> local, raised |-> "AliDockError"]
      [] daemon = "ok" /\ registry # "err" ->
                                 [local |-> registry, raised |-> "none"]

splitFirst(name) ==
    LET dashes == {i \in 1..Len(name) : name[i] = "-"}
    IN  IF dashes = {} THEN name
        ELSE SubSeq(name, 1, (CHOOSE i \in dashes : \A j \in dashes : i <= j) - 1)

\* self.conf["dockName"].rsplit("-", 1)[0]: what stands before the last "-"
rsplit(name) ==
    LET dashes == {i \in 1..Len(name) : name[i] = "-"}
    IN  IF dashes = {} THEN name
        ELSE SubSeq(name, 1, (CHOOSE i \in dashes : \A j \in dashes : j <= i) - 1)

\* run: os.mkdir with its except clause, the init script, containers.run
\* (which fetches a missing image itself). mkdir is what os.mkdir does where
\* the directory is missing: "ok", or "OSError" (it cannot be created).
run(dirState, mkdir, cont, local, dmn, registry) ==
    LET same == [dir |-> dirState, container |-> cont, local |-> local]
        made == [same EXCEPT !.dir = "present"]
        fatal == dirState # "present" /\ mkdir = "OSError"
    IN  CASE fatal ->
                same @@ [raised |-> "AliDockError", api |-> 0]
          [] ~fatal /\ dmn # "ok" ->
                made @@ [raised |-> dmn, api |-> 1]
          [] ~fatal /\ dmn = "ok"
               /\ (cont # "ABSENT" \/ (local = "none" /\ registry = "err")) ->
                made @@ [raised |-> "APIError", api |-> 1]
          [] ~fatal /\ dmn = "ok" /\ cont = "ABSENT"
               /\ ~(local = "none" /\ registry = "err") ->
                [dir |-> "present", container |-> "RUNNING",
                 local |-> IF local = "none" THEN registry ELSE local,
                 raised |-> "none", api |-> 1]

(***************************************************************************)
(* State                                                                   *)
(***************************************************************************)
VARIABLES
    \* the host
    uid,        \* os.getuid()
    dir,        \* the shared directory: "absent" or "present"
    tsFile,     \* the two state files under the shared directory
    now,        \* int(time())
    ticks,      \* clock advances so far
    container,  \* the container of the configured name: "ABSENT", "RUNNING"
    localImage, \* the local image: "none", "nodigest" or its digest
    \* one invocation of the tool
    pc,         \* where the invocation is
    args,       \* action, tmux switches, TMUX of the environment
    confFile,   \* ~/.alidock-config.yaml as read by this invocation
    override,   \* the configuration switches of args.__dict__
    daemon,     \* how the runtime answers this invocation: "unasked" until
                \* the first call, then "ok" or the error it raises
    conf,       \* aliDock.conf
    created,    \* created of processEnterStart
    attempts,   \* iterations of waitSshUp done
    waitRet,    \* what waitSshUp returned: "none", "true", "false"
    exitCode,   \* the process's exit status, -1 while there is none
    uncaught,   \* the exception that ended the process in a traceback
    handoff,    \* the program the process was replaced with (os.execvp)
    warnings,   \* LOG.warning / LOG.error messages of the update checks
    calls,      \* how often each operation was called in this invocation
    atEntry,    \* the container when the invocation began
    pulled,     \* what pull() raised: "uncalled", "none" or the exception
    \* the update checker
    hu,         \* the latest hasUpdates call
    img,        \* the latest hasImageUpdates call
    \* the object used as a library
    named,      \* the latest runtime call and the container name it gave
    sshd        \* the ssh attempt at which the container's sshd first answers

hostVars == <<uid, dir, tsFile, now, ticks, container, localImage>>

procVars == <<pc, args, confFile, override, daemon, conf, created,
              attempts, waitRet, exitCode, uncaught, handoff, warnings, calls,
              atEntry, pulled>>

vars == <<hostVars, procVars, hu, img, named, sshd>>

PipFile == ".alidock_pip_check"

DockerFile == ".alidock_docker_check"

Uids == {0, 1000}

DirStates == {"absent", "present"}

Daemons == {"ok", "APIError", "RequestException"}

Registries == Digests \cup {"err"}

Actions == {"enter", "root", "exec", "start", "status", "stop"}

CallNames == {"isRunning", "hasImageUpdates", "images.get",
              "get_registry_data", "pull", "run", "containers.run", "stop",
              "remove", "waitSshUp", "ssh", "shell", "rootShell"}

NoCalls == [c \in CallNames |-> 0]

Count(cs, names) == [c \in CallNames |-> IF c \in names THEN cs[c] + 1 ELSE cs[c]]

NoCall == [file |-> "none", nag |-> FALSE, period |-> 0, now |-> 0,
           before |-> Missing, outcome |-> "unasked", invoked |-> 0,
           ret |-> FALSE, raised |-> "none", after |-> Missing]

\* the record of one hasUpdates call: its arguments, the clock, the state
\* file before and after, what updateFunc did if it was asked, and what
\* the call did
CallRecord(file, nag, period, outcome, r) ==
    [file |-> file, nag |-> nag, period |-> period, now |-> now,
     before |-> tsFile[file],
     outcome |-> IF r.invoked = 1 THEN outcome ELSE "unasked",
     invoked |-> r.invoked, ret |-> r.ret, raised |-> r.raised,
     after |-> r.file]

NoImg == [called |-> FALSE, ret |-> FALSE, raised |-> "none", api |-> {},
          before |-> Missing, after |-> Missing]

\* the record of one hasImageUpdates call
ImgRecord(h) ==
    [called |-> TRUE, ret |-> h.res.ret, raised |-> h.res.raised,
     api |-> h.api, before |-> tsFile[DockerFile], after |-> h.res.file]

\* no runtime call made yet
NoName == [call |-> "none", name |-> <<>>, base |-> <<>>]

NoArgs == [action |-> "none", tmux |-> FALSE, tmuxControl |-> FALSE,
           inTmux |-> FALSE]

(***************************************************************************)
(* Init: a host before the first invocation of the tool, without state     *)
(* files; the shared directory may exist already.                          *)
(***************************************************************************)
HostInit ==
    /\ uid \in Uids
    /\ dir \in DirStates
    /\ tsFile = [f \in StateFiles |-> Missing]
    /\ now = StartTime
    /\ ticks = 0
    /\ container = "ABSENT"
    /\ localImage \in {"none", "nodigest", "sha256:AAA"}

ProcInit ==
    /\ pc = "idle"
    /\ args = NoArgs
    /\ confFile = NoFile
    /\ override = Null
    /\ daemon = "unasked"
    /\ conf = Defaults
    /\ created = FALSE
    /\ attempts = 0
    /\ waitRet = "none"
    /\ exitCode = -1
    /\ uncaught = "none"
    /\ handoff = "none"
    /\ warnings = {}
    /\ calls = NoCalls
    /\ atEntry = "ABSENT"
    /\ pulled = "uncalled"

Init ==
    /\ HostInit
    /\ ProcInit
    /\ hu = NoCall
    /\ img = NoImg
    /\ named = NoName
    /\ sshd = 0

(***************************************************************************)
(* The environment                                                         *)
(***************************************************************************)
\* time passes between invocations (a call reads the clock once)
Tick ==
    /\ pc = "idle"
    /\ ticks < MaxTicks
    /\ \E d \in TimeSteps : now' = now + d
    /\ ticks' = ticks + 1
    /\ UNCHANGED <<named, sshd, uid, dir, tsFile, container, localImage, procVars,
                   hu, img>>

(***************************************************************************)
(* One invocation of the tool: entrypoint -> processActions -> ...         *)
(***************************************************************************)
\* the configuration files and switches the invocations are given
ConfFiles == {NoFile,
              FileMap([updatePeriod |-> V(1), dontUpdateImage |-> V(TRUE)])}

Overrides == {ArgsDict(Null, Null, n) : n \in BOOLEAN}

TmuxArgs == {[action |-> "enter", tmux |-> t, tmuxControl |-> c, inTmux |-> i] :
                t \in BOOLEAN, c \in BOOLEAN, i \in BOOLEAN} \
            {[action |-> "enter", tmux |-> TRUE, tmuxControl |-> TRUE, inTmux |-> i] :
                i \in BOOLEAN}

ArgsSet == TmuxArgs \cup
           {[NoArgs EXCEPT !.action = a] : a \in Actions \ {"enter"}}

\* the process ends: by a return or exit(code), or by an exception that
\* entrypoint turns into a status or that nothing catches
Ends(code, exc) ==
    /\ pc' = "done"
    /\ exitCode' = code
    /\ uncaught' = exc

Raises(exc) ==
    Ends(ExitOf(exc),
         IF exc \in {"AliDockError", "APIError", "RequestException"}
         THEN "none" ELSE exc)

\* entrypoint: parse the arguments, call processActions
entrypoint ==
    /\ pc = "idle"
    /\ args' \in ArgsSet
    /\ confFile' \in ConfFiles
    /\ override' \in Overrides
    /\ pc' = "processActions"
    /\ atEntry' = container
    /\ UNCHANGED <<named, sshd, hostVars, daemon, conf, created, attempts, waitRet,
                   exitCode, uncaught, handoff, warnings, calls, pulled, hu,
                   img>>

\* the process is gone (it ended, or another program took its place):
\* nothing of it is left but what it did to the host
ProcessGone ==
    /\ pc = "done"
    /\ pc' = "idle"
    /\ args' = NoArgs
    /\ confFile' = NoFile
    /\ override' = Null
    /\ daemon' = "unasked"
    /\ conf' = Defaults
    /\ created' = FALSE
    /\ attempts' = 0
    /\ waitRet' = "none"
    /\ exitCode' = -1
    /\ uncaught' = "none"
    /\ handoff' = "none"
    /\ warnings' = {}
    /\ calls' = NoCalls
    /\ atEntry' = "ABSENT"
    /\ pulled' = "uncalled"
    /\ hu' = NoCall
    /\ img' = NoImg
    /\ UNCHANGED <<hostVars, named, sshd>>

IsSuperuserNever(u) == FALSE

\* if os.getuid() == 0
IsSuperuser(u) == u = 0

\* processActions, to the construction of AliDock
processActions ==
    /\ pc = "processActions"
    /\ IF IsSuperuser(uid)
       THEN /\ Raises("AliDockError")
            /\ UNCHANGED conf
       ELSE /\ conf' = AliDockInit(confFile, override, uid)
            /\ pc' = "hasClientUpdates"
            /\ UNCHANGED <<exitCode, uncaught>>
    /\ UNCHANGED <<named, sshd, hostVars, args, confFile, override, daemon, created,
                   attempts, waitRet, handoff, warnings, calls, atEntry,
                   pulled, hu, img>>

CaughtNever(raised) == FALSE

\* except AliDockError: LOG.warning(...), in processActions and in
\* processEnterStart
Caught(raised) == raised = "AliDockError"

\* args.action in [...]: the function processActions calls next
Dispatch(action) ==
    CASE action \in {"enter", "exec", "root", "start"} -> "processEnterStart"
      [] action = "status"                             -> "processStatus"
      [] action = "stop"                               -> "processStop"

\* processActions: the client-version check in its try block, the dispatch
ClientCheck ==
    /\ pc = "hasClientUpdates"
    /\ \E lastTag \in BOOLEAN, pypi \in PypiAnswers :
         LET period == conf["updatePeriod"].v
             r == hasClientUpdates(lastTag, tsFile[PipFile], dir, now, period,
                                   pypi)
         IN  /\ tsFile' = [tsFile EXCEPT ![PipFile] = r.file]
             /\ hu' = IF lastTag THEN hu
                      ELSE CallRecord(PipFile, TRUE, period,
                                      ClientUpdateFunc(pypi), r)
             /\ IF r.raised = "none" \/ Caught(r.raised)
                THEN /\ warnings' = warnings \cup
                          (IF Caught(r.raised)
                           THEN {"Cannot check for aliDock updates this time"}
                           ELSE IF r.ret
                           THEN {"You are using an obsolete version of alidock."}
                           ELSE {})
                     /\ pc' = Dispatch(args.action)
                     /\ UNCHANGED <<exitCode, uncaught>>
                ELSE /\ Raises(r.raised)
                     /\ UNCHANGED warnings
    /\ UNCHANGED <<named, sshd, uid, dir, now, ticks, container, localImage,
                   args, confFile, override, daemon, conf, created, attempts,
                   waitRet, handoff, calls, atEntry, pulled, img>>

StatusExitZero(running) == 0

\* exit(0) if running, exit(1) if not
StatusExit(running) == IF running = "true" THEN 0 ELSE 1

\* processStatus
processStatus ==
    /\ pc = "processStatus"
    /\ calls' = Count(calls, {"isRunning"})
    /\ daemon' \in Daemons
    /\ LET running == isRunning(container, daemon')
       IN  IF running \in {"true", "false"}
           THEN Ends(StatusExit(running), "none")
           ELSE Raises(running)
    /\ UNCHANGED <<named, sshd, hostVars, args, confFile, override, conf, created,
                   attempts, waitRet, handoff, warnings, atEntry, pulled, hu,
                   img>>

\* processStop
processStop ==
    /\ pc = "processStop"
    /\ daemon' \in Daemons
    /\ LET r == stop(container, daemon')
       IN  /\ container' = r.container
           /\ calls' = Count(calls, {"stop"} \cup
                             (IF r.container # container THEN {"remove"} ELSE {}))
           /\ IF r.raised = "none" THEN Ends(0, "none") ELSE Raises(r.raised)
    /\ UNCHANGED <<named, sshd, uid, dir, tsFile, now, ticks, localImage, args,
                   confFile, override, conf, created, attempts,
                   waitRet, handoff, warnings, atEntry, pulled, hu, img>>

\* processEnterStart: if not aliDock.isRunning()
EnterStartIsRunning ==
    /\ pc = "processEnterStart"
    /\ calls' = Count(calls, {"isRunning"})
    /\ daemon' \in Daemons
    /\ LET running == isRunning(container, daemon')
       IN  CASE running = "true" ->
                  /\ created' = FALSE
                  /\ pc' = "action"
                  /\ UNCHANGED <<exitCode, uncaught>>
             [] running = "false" ->
                  /\ created' = TRUE
                  /\ pc' = "hasImageUpdates"
                  /\ UNCHANGED <<exitCode, uncaught>>
             [] OTHER ->
                  /\ Raises(running)
                  /\ UNCHANGED created
    /\ UNCHANGED <<named, sshd, hostVars, args, confFile, override, conf,
                   attempts, waitRet, handoff, warnings, atEntry, pulled, hu,
                   img>>

\* processEnterStart: if aliDock.hasImageUpdates(), in its try block
ImageCheck ==
    /\ pc = "hasImageUpdates"
    /\ \E registry \in Registries :
         LET period == conf["updatePeriod"].v
             h == hasImageUpdates(conf["dontUpdateImage"].v, tsFile[DockerFile],
                                  dir, now, period, daemon, localImage, registry)
             r == h.res
         IN  /\ tsFile' = [tsFile EXCEPT ![DockerFile] = r.file]
             /\ hu' = IF SkipImageCheck(conf["dontUpdateImage"].v) THEN hu
                      ELSE CallRecord(DockerFile, FALSE, period,
                                      ImageUpdateFunc(daemon, localImage,
                                                      registry).outcome, r)
             /\ img' = ImgRecord(h)
             /\ calls' = Count(calls, {"hasImageUpdates"} \cup h.api)
             /\ CASE r.raised = "none" ->
                       /\ pc' = IF r.ret THEN "pull" ELSE "run"
                       /\ UNCHANGED <<warnings, exitCode, uncaught>>
                  [] r.raised # "none" /\ Caught(r.raised) ->
                       /\ pc' = "run"
                       /\ warnings' = warnings \cup
                                      {"Cannot update container image this time"}
                       /\ UNCHANGED <<exitCode, uncaught>>
                  [] OTHER ->
                       /\ Raises(r.raised)
                       /\ UNCHANGED warnings
    /\ UNCHANGED <<named, sshd, uid, dir, now, ticks, container, localImage,
                   args, confFile, override, daemon, conf, created, attempts,
                   waitRet, handoff, atEntry, pulled>>

\* processEnterStart: aliDock.pull(), in the same try block
Pull ==
    /\ pc = "pull"
    /\ \E registry \in Registries :
         LET r == pull(localImage, daemon, registry)
         IN  /\ localImage' = r.local
             /\ calls' = Count(calls, {"pull"})
             /\ pulled' = r.raised
             /\ CASE r.raised = "none" ->
                       /\ pc' = "run"
                       /\ UNCHANGED <<warnings, exitCode, uncaught>>
                  [] r.raised # "none" /\ Caught(r.raised) ->
                       /\ pc' = "run"
                       /\ warnings' = warnings \cup
                                      {"Cannot update container image this time"}
                       /\ UNCHANGED <<exitCode, uncaught>>
                  [] OTHER ->
                       /\ Raises(r.raised)
                       /\ UNCHANGED warnings
    /\ UNCHANGED <<named, sshd, uid, dir, tsFile, now, ticks, container, args,
                   confFile, override, daemon, conf, created, attempts,
                   waitRet, handoff, atEntry, hu, img>>

\* processEnterStart: aliDock.run()
Run ==
    /\ pc = "run"
    /\ \E mkdir \in {"ok", "OSError"}, registry \in Registries :
         LET r == run(dir, mkdir, container, localImage, daemon, registry)
         IN  /\ dir' = r.dir
             /\ container' = r.container
             /\ localImage' = r.local
             /\ calls' = Count(calls, {"run"} \cup
                               (IF r.api = 1 THEN {"containers.run"} ELSE {}))
             /\ IF r.raised = "none"
                THEN /\ pc' = "action"
                     /\ UNCHANGED <<exitCode, uncaught>>
                ELSE Raises(r.raised)
    /\ UNCHANGED <<named, sshd, uid, tsFile, now, ticks, args, confFile, override,
                   daemon, conf, created, attempts, waitRet, handoff, warnings,
                   atEntry, pulled, hu, img>>

\* getSshCommand: "ok" (the ssh argv) or the exception raised
getSshCommand(cont, dmn) ==
    IF dmn # "ok" THEN dmn
    ELSE IF cont = "RUNNING" THEN "ok" ELSE "AliDockError"

\* processEnterStart: the branch on args.action, up to the call of
\* waitSshUp, rootShell or the return
Action ==
    /\ pc = "action"
    /\ CASE args.action = "enter" ->
              IF (args.tmux \/ args.tmuxControl) /\ args.inTmux
              THEN /\ Raises("AliDockError")
                   /\ UNCHANGED <<handoff, calls>>
              ELSE /\ pc' = "waitSshUp"
                   /\ calls' = Count(calls, {"waitSshUp"})
                   /\ UNCHANGED <<exitCode, uncaught, handoff>>
         [] args.action = "exec" ->
              /\ pc' = "waitSshUp"
              /\ calls' = Count(calls, {"waitSshUp"})
              /\ UNCHANGED <<exitCode, uncaught, handoff>>
         [] args.action = "root" ->
              /\ handoff' = "docker exec"
              /\ calls' = Count(calls, {"rootShell"})
              /\ pc' = "done"
              /\ UNCHANGED <<exitCode, uncaught>>
         [] args.action = "start" ->
              /\ Ends(0, "none")
              /\ UNCHANGED <<handoff, calls>>
    /\ UNCHANGED <<named, sshd, hostVars, args, confFile, override, daemon, conf,
                   created, attempts, waitRet, warnings, atEntry, pulled, hu,
                   img>>

RECURSIVE WaitLoop(_, _, _, _)
\* the loop of waitSshUp from iteration i on: firstUp is the first attempt
\* (counted from 1) at which ssh succeeds; the result is what is returned
\* or raised and the number of attempts made
WaitLoop(i, tries, firstUp, cmd) ==
    IF i >= tries
    THEN [ret |-> "false", ssh |-> i]
    ELSE IF cmd # "ok"
    THEN [ret |-> cmd, ssh |-> i]
    ELSE IF i + 1 >= firstUp
    THEN [ret |-> "true", ssh |-> i + 1]
    ELSE WaitLoop(i + 1, tries, firstUp, cmd)

TriesOneMore == SshTries + 1

\* for _ in range(0, 40)
Tries == SshTries

waitSshUp(firstUp, cmd) == WaitLoop(0, Tries, firstUp, cmd)

\* when the container's sshd starts to answer: at once, at the second
\* attempt, at the last one, or not within the attempts made
FirstUps == {1, 2, SshTries, SshTries + 1}

AfterWaitChecked(ret) == IF ret = "true" THEN "shell" ELSE "done"

\* the statement after aliDock.waitSshUp(): aliDock.shell(...), whatever
\* was returned
AfterWait(ret) == "shell"

\* aliDock.waitSshUp() in processEnterStart; its result is dropped
WaitSshUp ==
    /\ pc = "waitSshUp"
    /\ \E firstUp \in FirstUps :
         LET r == waitSshUp(firstUp, getSshCommand(container, daemon))
         IN  /\ attempts' = r.ssh
             /\ calls' = [calls EXCEPT !["ssh"] = r.ssh]
             /\ IF r.ret \in {"true", "false"}
                THEN /\ waitRet' = r.ret
                     /\ pc' = AfterWait(r.ret)
                     /\ UNCHANGED <<exitCode, uncaught>>
                ELSE /\ Raises(r.ret)
                     /\ UNCHANGED waitRet
    /\ UNCHANGED <<named, sshd, hostVars, args, confFile, override, daemon, conf,
                   created, handoff, warnings, atEntry, pulled, hu, img>>

\* aliDock.shell(cmd): os.execvp("ssh", ...)
Shell ==
    /\ pc = "shell"
    /\ LET cmd == getSshCommand(container, daemon)
       IN  IF cmd # "ok"
           THEN /\ Raises(cmd)
                /\ UNCHANGED <<handoff, calls>>
           ELSE /\ handoff' = "ssh"
                /\ calls' = Count(calls, {"shell"})
                /\ pc' = "done"
                /\ UNCHANGED <<exitCode, uncaught>>
    /\ UNCHANGED <<named, sshd, hostVars, args, confFile, override, daemon, conf,
                   created, attempts, waitRet, warnings, atEntry, pulled, hu,
                   img>>

Next ==
    \/ Tick
    \/ entrypoint
    \/ ProcessGone
    \/ processActions
    \/ ClientCheck
    \/ processStatus
    \/ processStop
    \/ EnterStartIsRunning
    \/ ImageCheck
    \/ Pull
    \/ Run
    \/ Action
    \/ WaitSshUp
    \/ Shell

Spec == Init /\ [][Next]_vars

(***************************************************************************)
(* The update checker used as a library: an AliDock object on a host whose *)
(* state files may hold anything (open(tsFn, "w") truncates before it      *)
(* writes), a method called again and again with any arguments.            *)
(***************************************************************************)
\* what an updateFunc given to hasUpdates can do
CheckOutcomes == {"update", "noupdate", "AliDockError", "RequestException"}

InitLib ==
    /\ uid \in Uids \ {0}
    /\ dir \in DirStates
    /\ tsFile \in [StateFiles -> {Missing, Garbage}]
    /\ (dir # "present" => \A f \in StateFiles : tsFile[f] = Missing)
    /\ now = 0
    /\ ticks = 0
    /\ container = "ABSENT"
    /\ localImage = "none"
    /\ ProcInit
    /\ hu = NoCall
    /\ img = NoImg
    /\ named = NoName
    /\ sshd = 0

InitImg ==
    /\ uid \in Uids \ {0}
    /\ dir \in DirStates
    /\ tsFile \in [StateFiles -> {Missing, Garbage}]
    /\ tsFile[PipFile] = Missing
    /\ (dir # "present" => tsFile[DockerFile] = Missing)
    /\ now = 0
    /\ ticks = 0
    /\ container = "ABSENT"
    /\ localImage \in {"none", "nodigest", "sha256:AAA"}
    /\ ProcInit
    /\ hu = NoCall
    /\ img = NoImg
    /\ named = NoName
    /\ sshd = 0

LibTick ==
    /\ ticks < MaxLibTicks
    /\ \E d \in TimeSteps : now' = now + d
    /\ ticks' = ticks + 1
    /\ UNCHANGED <<named, sshd, uid, dir, tsFile, container, localImage, procVars, hu, img>>

\* aliDock.hasUpdates(stateFileRelative, updatePeriod, nagOnUpdate, updateFunc)
LibHasUpdates ==
    /\ \E f \in StateFiles, p \in Periods, nag \in BOOLEAN, o \in CheckOutcomes :
         LET r == hasUpdates(tsFile[f], dir, now, p, nag, o)
         IN  /\ tsFile' = [tsFile EXCEPT ![f] = r.file]
             /\ hu' = CallRecord(f, nag, p, o, r)
    /\ UNCHANGED <<named, sshd, uid, dir, now, ticks, container, localImage, procVars, img>>

\* aliDock.hasImageUpdates() of an object whose configuration says
\* dontUpdateImage dont and updatePeriod p
LibHasImageUpdates ==
    /\ \E dont \in BOOLEAN, p \in Periods, dmn \in Daemons, registry \in Registries :
         LET h == hasImageUpdates(dont, tsFile[DockerFile], dir, now, p, dmn,
                                  localImage, registry)
         IN  /\ tsFile' = [tsFile EXCEPT ![DockerFile] = h.res.file]
             /\ hu' = IF SkipImageCheck(dont) THEN NoCall
                      ELSE CallRecord(DockerFile, FALSE, p,
                                      ImageUpdateFunc(dmn, localImage,
                                                      registry).outcome, h.res)
             /\ img' = ImgRecord(h) @@
                       [dont |-> dont, period |-> p, now |-> now,
                        daemon |-> dmn, local |-> localImage,
                        registry |-> registry]
    /\ UNCHANGED <<named, sshd, uid, dir, now, ticks, container, localImage, procVars>>

NextLib ==
    \/ LibTick
    \/ LibHasUpdates

SpecLib == InitLib /\ [][NextLib]_vars

NextImg ==
    \/ LibTick
    \/ LibHasImageUpdates

SpecImg == InitImg /\ [][NextImg]_vars

(***************************************************************************)
(* The configuration of an AliDock object: AliDock(overrideConf) built     *)
(* with any configuration file and any override, then the runtime calls    *)
(* that name the container.                                                *)
(***************************************************************************)
\* a key the mapping does not have
Absent == [t |-> "absent"]

\* the mapping with the keys of f that are not Absent
Mapping(f) == [k \in {x \in DOMAIN f : f[x] # Absent} |-> f[k]]

\* ~/.alidock-config.yaml: unreadable, or a mapping with some of the keys,
\* some of them null
LibConfFiles ==
    {NoFile} \cup
    {FileMap(Mapping([dockName |-> a, updatePeriod |-> b, dontUpdateImage |-> c])) :
        a \in {Absent, Null, V(<<"my", "-", "dock">>)},
        b \in {Absent, Null, V(1)},
        c \in {Absent, V(TRUE)}}

\* overrideConf: None, or a dict (empty when every key is Absent)
LibOverrides ==
    {Null} \cup
    {Mapping([dockName |-> a, updatePeriod |-> b, dontUpdateImage |-> c]) :
        a \in {Absent, Null, V(<<"dev">>)},
        b \in {Absent, Null, V(0)},
        c \in {Absent, V(FALSE)}}

\* the calls that give the runtime the container's name
NamedCalls == {"containers.get", "containers.run", "remove", "docker exec"}

InitConf ==
    /\ uid \in Uids
    /\ dir = "present"
    /\ tsFile = [f \in StateFiles |-> Missing]
    /\ now = StartTime
    /\ ticks = 0
    /\ container = "ABSENT"
    /\ localImage = "none"
    /\ pc = "idle"
    /\ args = NoArgs
    /\ confFile \in LibConfFiles
    /\ override \in LibOverrides
    /\ daemon = "unasked"
    /\ conf = Defaults
    /\ created = FALSE
    /\ attempts = 0
    /\ waitRet = "none"
    /\ exitCode = -1
    /\ uncaught = "none"
    /\ handoff = "none"
    /\ warnings = {}
    /\ calls = NoCalls
    /\ atEntry = "ABSENT"
    /\ pulled = "uncalled"
    /\ hu = NoCall
    /\ img = NoImg
    /\ named = NoName
    /\ sshd = 0

\* aliDock = AliDock(overrideConf)
LibConstruct ==
    /\ pc = "idle"
    /\ conf' = AliDockInit(confFile, override, uid)
    /\ pc' = "constructed"
    /\ UNCHANGED <<hostVars, args, confFile, override, daemon, created,
                   attempts, waitRet, exitCode, uncaught, handoff, warnings,
                   calls, atEntry, pulled, hu, img, named, sshd>>

\* a runtime call of isRunning, getSshCommand, run, stop or rootShell: the
\* name it gives is self.conf["dockName"]; run also renders the init script
\* with the base name
LibNamedCall ==
    /\ pc = "constructed"
    /\ \E call \in NamedCalls :
         named' = [call |-> call,
                   name |-> conf["dockName"].v,
                   base |-> IF call = "containers.run"
                            THEN rsplit(conf["dockName"].v) ELSE <<>>]
    /\ UNCHANGED <<hostVars, procVars, hu, img, sshd>>

NextConf ==
    \/ LibConstruct
    \/ LibNamedCall

SpecConf == InitConf /\ [][NextConf]_vars

(***************************************************************************)
(* waitSshUp step by step: one call, one loop iteration per step, on a     *)
(* container whose sshd answers from some attempt on (or never).           *)
(***************************************************************************)
\* the attempt from which ssh succeeds; SshTries + 1: not within the loop
SshdUps == 1..(SshTries + 1)

InitSsh ==
    /\ uid \in Uids \ {0}
    /\ dir = "present"
    /\ tsFile = [f \in StateFiles |-> Missing]
    /\ now = StartTime
    /\ ticks = 0
    /\ container \in {"ABSENT", "RUNNING"}
    /\ localImage = "sha256:AAA"
    /\ pc = "waitLoop"
    /\ args = [NoArgs EXCEPT !.action = "exec"]
    /\ confFile = NoFile
    /\ override = Null
    /\ daemon \in Daemons
    /\ conf = AliDockInit(NoFile, Null, uid)
    /\ created = FALSE
    /\ attempts = 0
    /\ waitRet = "none"
    /\ exitCode = -1
    /\ uncaught = "none"
    /\ handoff = "none"
    /\ warnings = {}
    /\ calls = Count(NoCalls, {"isRunning", "waitSshUp"})
    /\ atEntry = container
    /\ pulled = "uncalled"
    /\ hu = NoCall
    /\ img = NoImg
    /\ named = NoName
    /\ sshd \in SshdUps

\* one iteration of the for loop: getSshCommand(), check_call, then
\* return True, or sleep(0.5) after CalledProcessError
SshAttempt ==
    /\ pc = "waitLoop"
    /\ attempts < Tries
    /\ LET cmd == getSshCommand(container, daemon)
       IN  IF cmd # "ok"
           THEN /\ Raises(cmd)
                /\ UNCHANGED <<attempts, waitRet, calls>>
           ELSE /\ attempts' = attempts + 1
                /\ calls' = Count(calls, {"ssh"})
                /\ IF attempts + 1 >= sshd
                   THEN /\ waitRet' = "true"
                        /\ pc' = "returned"
                   ELSE UNCHANGED <<waitRet, pc>>
                /\ UNCHANGED <<exitCode, uncaught>>
    /\ UNCHANGED <<hostVars, args, confFile, override, daemon, conf, created,
                   handoff, warnings, atEntry, pulled, hu, img, named, sshd>>

\* the range is exhausted: return False
SshExhausted ==
    /\ pc = "waitLoop"
    /\ attempts >= Tries
    /\ waitRet' = "false"
    /\ pc' = "returned"
    /\ UNCHANGED <<hostVars, args, confFile, override, daemon, conf, created,
                   attempts, exitCode, uncaught, handoff, warnings, calls,
                   atEntry, pulled, hu, img, named, sshd>>

NextSsh ==
    \/ SshAttempt
    \/ SshExhausted

\* the loop has no blocking step: an enabled iteration is taken
SpecSsh == InitSsh /\ [][NextSsh]_vars /\ WF_vars(NextSsh)

(***************************************************************************)
(* Properties of the update checker (SpecLib, SpecImg)                     *)
(***************************************************************************)
\* the last-check timestamp a state file stands for
LastCheck(content) == IF content.kind = "int" THEN content.val ELSE 0

\* C1: a hasUpdates call runs the check function once when
\* now - lastCheck > period; otherwise (equality included) it does not run
\* it, returns false and leaves the state file as it was. A missing or
\* unparseable state file counts as lastCheck = 0.
C1_Debounce ==
    hu.file # "none" =>
        IF hu.now - LastCheck(hu.before) > hu.period
        THEN hu.invoked = 1
        ELSE /\ hu.invoked = 0
             /\ hu.ret = FALSE
             /\ hu.raised = "none"
             /\ hu.after = hu.before
             /\ tsFile[hu.file] = hu.before

\* a call exactly one period after a recorded check was debounced
C1_Witness ==
    /\ hu.file # "none"
    /\ hu.before.kind = "int"
    /\ hu.period > 0
    /\ hu.now - hu.before.val = hu.period
    /\ hu.invoked = 0

\* C2: whenever hasUpdates runs the check function, the state file is
\* rewritten to now if and only if nagOnUpdate is false, whatever the check
\* did (update, no update, update-check error).
C2_RewriteIffNotNag ==
    (hu.invoked = 1 /\ hu.outcome \in {"update", "noupdate", "AliDockError"})
        => /\ hu.after = (IF hu.nag THEN hu.before ELSE Ts(hu.now))
           /\ tsFile[hu.file] = hu.after

\* C3: with nagOnUpdate true, a check that ran and found no update leaves
\* the state file at now (so that the next call within the period is
\* debounced).
C3_NagNoUpdatePersists ==
    (hu.nag /\ hu.invoked = 1 /\ hu.outcome = "noupdate")
        => hu.after = Ts(hu.now)

\* C4: when the check function fails with an update-check error, the same
\* error reaches the caller, and by then the state file holds now when
\* nagOnUpdate is false and is unchanged when it is true.
C4_ErrorAfterPersist ==
    (hu.invoked = 1 /\ hu.outcome = "AliDockError")
        => /\ hu.raised = "AliDockError"
           /\ hu.after = (IF hu.nag THEN hu.before ELSE Ts(hu.now))

\* C5: with dontUpdateImage false, the local image present and a recorded
\* last check older than the period, the state file holds now after
\* hasImageUpdates; and with both digests at hand the call returns true
\* exactly when the registry's digest differs from the local one.
C5_ImageUpdate ==
    (/\ img.called
     /\ ~img.dont
     /\ img.daemon = "ok"
     /\ img.local # "none"
     /\ img.before.kind = "int"
     /\ img.now - img.before.val > img.period)
        => /\ img.after = Ts(img.now)
           /\ tsFile[DockerFile] = Ts(img.now)
           /\ (img.local \in Digests /\ img.registry \in Digests)
                 => /\ img.raised = "none"
                    /\ img.ret = (img.registry # img.local)

\* period 43200, last check 50000 s ago, local sha256:AAA, registry
\* sha256:BBB: true, and the timestamp is now
C5_Witness ==
    /\ img.called
    /\ ~img.dont
    /\ img.period = DefaultPeriod
    /\ img.before.kind = "int"
    /\ img.now - img.before.val = 50000
    /\ img.local = "sha256:AAA"
    /\ img.registry = "sha256:BBB"
    /\ img.ret
    /\ tsFile[DockerFile] = Ts(now)

\* C6: with dontUpdateImage true, hasImageUpdates returns false, asks
\* neither for the local image nor the registry, and leaves the state file
\* as it was, whatever the timestamp and the digests.
C6_NoImageCheck ==
    (img.called /\ img.dont)
        => /\ img.ret = FALSE
           /\ img.raised = "none"
           /\ img.api = {}
           /\ img.after = img.before
           /\ tsFile[DockerFile] = img.before
           /\ hu = NoCall

\* the check was skipped although the last one is older than the period
\* and the registry holds another digest
C6_Witness ==
    /\ img.called
    /\ img.dont
    /\ img.daemon = "ok"
    /\ img.before.kind = "int"
    /\ img.now - img.before.val > img.period
    /\ img.local \in Digests
    /\ img.registry \in Digests
    /\ img.registry # img.local
    /\ img.ret = FALSE

(***************************************************************************)
(* Properties of the tool (Spec)                                           *)
(***************************************************************************)
ClientWarning == "Cannot check for aliDock updates this time"

ImageWarning == "Cannot update container image this time"

\* processActions has called processEnterStart, processStatus or processStop
Dispatched ==
    \/ pc = Dispatch(args.action)
    \/ calls["isRunning"] + calls["stop"] > 0

\* run() is the next call, or was made
RunInvoked == pc = "run" \/ calls["run"] = 1

\* C7: an update-check error never aborts the action: raised by the
\* client-version check it becomes a warning and the action is dispatched;
\* raised by the image check or by pull() it becomes a warning and run() is
\* still invoked.
C7_UpdateFailuresDowngraded ==
    /\ (hu.file = PipFile /\ hu.raised = "AliDockError")
          => (ClientWarning \in warnings /\ uncaught = "none" /\ Dispatched)
    /\ (img.called /\ img.raised = "AliDockError")
          => (ImageWarning \in warnings /\ uncaught = "none" /\ RunInvoked)
    /\ pulled = "AliDockError"
          => (ImageWarning \in warnings /\ uncaught = "none" /\ RunInvoked)

\* the client check failed, then pull() failed, and the container was
\* started all the same
C7_Witness ==
    /\ pc = "done"
    /\ args.action = "start"
    /\ ClientWarning \in warnings
    /\ pulled = "AliDockError"
    /\ calls["run"] = 1
    /\ atEntry = "ABSENT"
    /\ container = "RUNNING"
    /\ exitCode = 0

\* C8: stop is idempotent: whatever the container's state, a stop that the
\* runtime answers ends without error and leaves the container absent.
C8_StopIdempotent ==
    (pc = "done" /\ args.action = "stop" /\ daemon = "ok")
        => /\ exitCode = 0
           /\ uncaught = "none"
           /\ container = "ABSENT"

\* a stop of a container that was absent already
C8_Witness ==
    /\ pc = "done"
    /\ args.action = "stop"
    /\ daemon = "ok"
    /\ atEntry = "ABSENT"
    /\ calls["stop"] = 1
    /\ calls["remove"] = 0
    /\ exitCode = 0
    /\ container = "ABSENT"

\* C9: action status calls neither run() nor pull() nor stop() and leaves
\* the container as it is; answered by the runtime, it ends with exit code 1
\* when the container is absent and 0 when it exists.
C9_Status ==
    args.action = "status"
        => /\ calls["run"] = 0
           /\ calls["containers.run"] = 0
           /\ calls["pull"] = 0
           /\ calls["stop"] = 0
           /\ calls["remove"] = 0
           /\ container = atEntry
           /\ (pc = "done" /\ daemon = "ok")
                 => exitCode = (IF atEntry = "ABSENT" THEN 1 ELSE 0)

\* status of an absent container: exit code 1, still no container
C9_Witness ==
    /\ pc = "done"
    /\ args.action = "status"
    /\ daemon = "ok"
    /\ atEntry = "ABSENT"
    /\ exitCode = 1
    /\ container = "ABSENT"

\* C10: with the container absent, action start makes exactly one run()
\* call and no SSH attempt (no waitSshUp, no shell handoff).
C10_StartRunsOnce ==
    (pc = "done" /\ args.action = "start" /\ daemon = "ok"
       /\ atEntry = "ABSENT")
        => /\ calls["run"] = 1
           /\ calls["waitSshUp"] = 0
           /\ calls["ssh"] = 0
           /\ calls["shell"] = 0
           /\ handoff = "none"

\* C11: isRunning() answers true when the runtime has the container and
\* false when it answers "not found"; any other runtime error leaves
\* isRunning() and the tool as it is (exit code 11 or 12), never as false
\* (nothing is created) and never as a domain error (exit code 10).
C11_IsRunning ==
    /\ (args.action \in {"enter", "exec", "root", "start"}
           /\ calls["isRunning"] = 1)
          => IF daemon = "ok"
             THEN created = (atEntry = "ABSENT")
             ELSE /\ pc = "done"
                  /\ exitCode = (IF daemon = "APIError" THEN 11 ELSE 12)
                  /\ ~created
                  /\ ~img.called
                  /\ calls["run"] = 0
    /\ (args.action = "status" /\ calls["isRunning"] = 1 /\ daemon # "ok")
          => /\ pc = "done"
             /\ exitCode = (IF daemon = "APIError" THEN 11 ELSE 12)

\* start met a runtime error in isRunning(): exit code 11, nothing created
C11_Witness ==
    /\ pc = "done"
    /\ args.action = "start"
    /\ calls["isRunning"] = 1
    /\ daemon = "APIError"
    /\ exitCode = 11
    /\ ~created
    /\ container = "ABSENT"

(***************************************************************************)
(* Properties of the configuration (SpecConf, Spec)                        *)
(***************************************************************************)
\* the value the layering rule gives key k: the override's if present and
\* not null, else the file's if present and not null, else the default
Layered(k) ==
    IF k \in DOMAIN override /\ override[k] # Null
    THEN override[k]
    ELSE IF confFile.t = "map" /\ k \in DOMAIN confFile.m /\ confFile.m[k] # Null
    THEN confFile.m[k]
    ELSE Defaults[k]

\* C12: for every key the resolved value is the override's value if it is
\* present and not null, else the file's value if the key is there with a
\* value that is not null, else the default (the container name with the
\* user id appended).
C12_Layered ==
    pc = "constructed" =>
        /\ \A k \in Keys \ {"dockName"} : conf[k] = Layered(k)
        /\ conf["dockName"] = V(Layered("dockName").v \o <<"-", ToString(uid)>>)

\* the invocation has built its AliDock object
Constructed == uid # 0 /\ pc \notin {"idle", "processActions"}

\* C13: a value the configuration file sets takes effect when the matching
\* command-line flag is not given: the update period of the file is the
\* resolved one, and with dontUpdateImage true in the file and no
\* --no-update-image the resolved dontUpdateImage is true and the image check
\* is skipped (no runtime call, no hasUpdates call on the image's state file).
C13_FileValueEffective ==
    (Constructed /\ confFile.t = "map") =>
        /\ ("updatePeriod" \in DOMAIN confFile.m /\ override["updatePeriod"] = Null)
              => conf["updatePeriod"] = confFile.m["updatePeriod"]
        /\ ("dontUpdateImage" \in DOMAIN confFile.m
               /\ confFile.m["dontUpdateImage"] = V(TRUE)
               /\ override["dontUpdateImage"] = V(FALSE))
              => /\ conf["dontUpdateImage"] = V(TRUE)
                 /\ img.api = {}
                 /\ hu.file # DockerFile

\* the name option as resolved from default, file and override, before the
\* user id is appended: its text (None where the option is null)
BaseName ==
    LET b == overrideConfig(parseConfig(Defaults, confFile), override)["dockName"]
    IN  IF b = Null THEN <<"None">> ELSE b.v

\* C14: after the construction the container name is the resolved base
\* name, "-" and the user id, appended once; every runtime call (get, run,
\* remove, exec) gives that name; and the base name run() hands to the init
\* script, split off at the last "-", is the resolved base name, also when
\* that contains "-".
C14_ContainerName ==
    pc = "constructed" =>
        /\ conf["dockName"] = V(BaseName \o <<"-", ToString(uid)>>)
        /\ named.call # "none"
              => named.name = BaseName \o <<"-", ToString(uid)>>
        /\ named.call = "containers.run" => named.base = BaseName

\* run() with the base name my-dock of the file: the container is
\* my-dock-1000 and the init script gets my-dock
C14_Witness ==
    /\ pc = "constructed"
    /\ uid = 1000
    /\ BaseName = <<"my", "-", "dock">>
    /\ named.call = "containers.run"
    /\ named.name = <<"my", "-", "dock", "-", "1000">>
    /\ named.base = <<"my", "-", "dock">>

(***************************************************************************)
(* Properties of the tool's actions (Spec, SpecSsh)                        *)
(***************************************************************************)
\* C15: invoked by the superuser, every action ends with exit code 10
\* before the configuration is resolved, before any update check and before
\* any runtime call; the container, the image, the shared directory and the
\* state files stay as they are.
C15_RootRefused ==
    /\ [](uid = 0 =>
             /\ conf = Defaults
             /\ hu = NoCall
             /\ img = NoImg
             /\ calls = NoCalls
             /\ daemon = "unasked"
             /\ handoff = "none"
             /\ (pc = "done" => (exitCode = 10 /\ uncaught = "none")))
    /\ [][uid = 0 => UNCHANGED <<dir, tsFile, container, localImage>>]_vars

\* the superuser's start was refused
C15_Witness ==
    /\ uid = 0
    /\ pc = "done"
    /\ args.action = "start"
    /\ exitCode = 10
    /\ container = "ABSENT"

\* C16: on a host where the container is absent and the runtime answers,
\* start always gets from the image check to run(): the check and the
\* writing of its state file end in nothing the dispatcher does not
\* handle, whether or not the shared directory exists yet; and when run()
\* has succeeded the container exists.
C16_FreshStart ==
    (args.action = "start" /\ atEntry = "ABSENT" /\ daemon = "ok" /\ img.called)
        => /\ uncaught = "none"
           /\ img.raised \in {"none", "AliDockError"}
           /\ pc = "pull" \/ RunInvoked
           /\ (pc = "done" /\ exitCode = 0) => container = "RUNNING"

\* C17: over any sequence of invocations the container is ABSENT or
\* RUNNING; run() is reached only after isRunning() returned false, with the
\* container still absent; a stop that succeeded leaves no container; and
\* the container changes only from ABSENT to RUNNING in run() and from
\* RUNNING to ABSENT in stop().
C17_Lifecycle ==
    /\ [](/\ container \in {"ABSENT", "RUNNING"}
          /\ pc = "run" => (created /\ calls["isRunning"] = 1
                               /\ container = "ABSENT")
          /\ (args.action = "stop" /\ pc = "done" /\ exitCode = 0)
                => container = "ABSENT")
    /\ [][container' # container =>
             \/ (pc = "run" /\ container = "ABSENT" /\ container' = "RUNNING")
             \/ (pc = "processStop" /\ container = "RUNNING"
                   /\ container' = "ABSENT")]_vars

\* a container an earlier invocation had started was removed by stop
C17_Witness ==
    /\ pc = "done"
    /\ args.action = "stop"
    /\ atEntry = "RUNNING"
    /\ calls["remove"] = 1
    /\ container = "ABSENT"

\* C18: waitSshUp ends after at most 40 SSH attempts: it returns true at
\* the first attempt that succeeds, making no further one, and false after
\* exactly 40 failed attempts; every call ends (by a return, or by the
\* error of getSshCommand). The loop taken step by step ends as waitSshUp
\* taken as one step does.
C18_WaitSshUpTerminates ==
    /\ [](/\ attempts <= 40
          /\ calls["ssh"] = attempts
          /\ (pc = "returned" /\ waitRet = "true")
                => (attempts = sshd /\ sshd <= 40)
          /\ (pc = "returned" /\ waitRet = "false")
                => (attempts = 40 /\ sshd > 40)
          /\ pc = "returned"
                => waitSshUp(sshd, getSshCommand(container, daemon))
                     = [ret |-> waitRet, ssh |-> attempts])
    /\ <>(pc \in {"returned", "done"})

\* sshd never answered: false after 40 attempts
C18_Witness ==
    /\ pc = "returned"
    /\ waitRet = "false"
    /\ attempts = 40
    /\ sshd = 41
    /\ container = "RUNNING"

\* C19: when the container exists already, start does nothing to the
\* container and the image: no image check, no pull(), no run(), no SSH
\* attempt, no stop(); the image check's state file stays as it is; answered
\* by the runtime, start ends with exit code 0.
C19_StartNoop ==
    /\ []((args.action = "start" /\ atEntry = "RUNNING") =>
             /\ ~created
             /\ ~img.called
             /\ hu.file # DockerFile
             /\ \A c \in CallNames \ {"isRunning"} : calls[c] = 0
             /\ pulled = "uncalled"
             /\ attempts = 0
             /\ handoff = "none"
             /\ container = "RUNNING"
             /\ (pc = "done" /\ daemon = "ok") => exitCode = 0)
    /\ [][(args.action = "start" /\ atEntry = "RUNNING") =>
             /\ UNCHANGED <<container, localImage, dir>>
             /\ tsFile'[DockerFile] = tsFile[DockerFile]]_vars

\* start of a running container ended with exit code 0
C19_Witness ==
    /\ pc = "done"
    /\ args.action = "start"
    /\ atEntry = "RUNNING"
    /\ calls["isRunning"] = 1
    /\ daemon = "ok"
    /\ exitCode = 0
    /\ container = "RUNNING"

\* C20: for enter and exec the process is replaced by ssh only after
\* waitSshUp has returned, and it is replaced whatever waitSshUp returned
\* (also false, after 40 failed attempts); for root the process is replaced
\* by docker exec without waitSshUp and with no SSH attempt.
C20_HandoffAfterWait ==
    /\ (handoff = "ssh" \/ pc = "shell")
          => /\ args.action \in {"enter", "exec"}
             /\ calls["waitSshUp"] = 1
             /\ waitRet \in {"true", "false"}
    /\ (args.action \in {"enter", "exec"} /\ waitRet \in {"true", "false"})
          => (pc = "shell" \/ (pc = "done" /\ handoff = "ssh"))
    /\ handoff = "docker exec"
          => /\ args.action = "root"
             /\ calls["waitSshUp"] = 0
             /\ calls["ssh"] = 0
             /\ attempts = 0
    /\ (args.action = "root" /\ pc = "done" /\ exitCode = -1)
          => handoff = "docker exec"

\* exec handed over to ssh after 40 failed attempts
C20_Witness ==
    /\ pc = "done"
    /\ args.action = "exec"
    /\ waitRet = "false"
    /\ attempts = 40
    /\ calls["ssh"] = 40
    /\ handoff = "ssh"

====
